---------------------------- MODULE Spec2Model ----------------------------
(***************************************************************************)
(* Booking Engine API: the account and booking routes of app/main.py, the *)
(* command and query handlers they call, the bearer-token dependency, the  *)
(* application-wide API-key dependency and the per-route rate limiter.     *)
(*                                                                         *)
(* The store is the two collections the code uses: users and events, each  *)
(* a sequence in insertion order (find_one returns the first match).       *)
(* Time is a clock in minutes.  uuid4() is a counter of ids handed out.    *)
(* A route action is the endpoint as the framework calls it once the       *)
(* application-wide dependency has let the request through: the bearer     *)
(* dependency (protected routes), the limiter's wrapper, then the body.    *)
(* The application-wide dependency itself is the action ApiKeyGate.        *)
(***************************************************************************)
EXTENDS Integers, Sequences, FiniteSets, TLC

VARIABLES
    users,      \* db.users: sequence of user documents
    events,     \* db.events: sequence of event documents
    now,        \* the clock, in minutes
    uuids,      \* number of uuid4() values handed out so far
    issued,     \* tokens handed to clients so far: [tok, via] (not program state)
    limiter,    \* "NoOpLimiter" (under pytest) or "Limiter" (production)
    hits,       \* the Limiter's storage: (address, route) -> [count, expiry]
    threads,    \* register requests between their existence check and their insert
    created,    \* history: the payloads returned by successful create_booking calls
    pw_changed_at, \* history: the time of the latest update_password call (-1: none yet)
    replayed,   \* history: the latest accepted reset_password call reused, at a later
                \* time, the token of an accepted reset_password call just before it
    resp        \* the last response sent, with the request it answers

vars == <<users, events, now, uuids, issued, limiter, hits, threads, created,
         pw_changed_at, replayed, resp>>

store == <<users, events, uuids, issued, threads, created, pw_changed_at, replayed>>

Tokens == {i.tok : i \in issued}

----------------------------------------------------------------------------
(* Bounds of the model and the inputs requests are drawn from.             *)

MaxEvents == 3
MaxClock == 90
TickMinutes == 30
MaxOver == 2
MaxTokens == 2

Emails == {"a@example.com", "b@example.com"}
Passwords == {"Secret123!", "NewSecret456!", "Changed123!"}
Names == {"Test User", "Updated Name"}
Slots == {"2030-01-01T10:00", "2030-01-02T10:00"}
Client == "10.0.0.1"
Other == "10.0.0.2"
Addrs == {Client, Other}
Workers == {1, 2}

NoHeader == "<absent>"
ApiKeyHeaders == {NoHeader, "", "wrong-key", "the-secret"}

Routes == {"register", "login", "recover_password", "reset_password",
           "read_profile", "update_profile", "change_password",
           "create_booking", "list_bookings"}

----------------------------------------------------------------------------
(* Settings, hashing, tokens.                                              *)

jwt_expire_minutes == 60
recover_expire_minutes == 60
jwt_secret_key == "jwt-secret"

NoToken == [sub |-> 0, exp |-> 0, key |-> "none"]

\* The fields class Settings declares; reading any other attribute raises.
SettingsFields == {"mongodb_uri", "mongodb_db", "jwt_secret_key", "jwt_expire_minutes",
                   "smtp_host", "smtp_port", "smtp_user", "smtp_pass", "smtp_from_email"}

hash_password(p) == <<"hashed", p>>

verify_password(p, h) == h = hash_password(p)

create_access_token(subject, expires_delta) ==
    [sub |-> subject, exp |-> now + expires_delta, key |-> jwt_secret_key]

\* jwt.decode with the expiry check switched off (options verify_exp = False).
jwt_decode_verify_exp_off(token) ==
    IF token.key = jwt_secret_key
    THEN <<[sub |-> token.sub, exp |-> token.exp]>>
    ELSE <<>>

\* jose's jwt.decode: <<payload>>, or <<>> for a JWTError (bad signature, or
\* exp < now: a token is still accepted at the instant now = exp).
jwt_decode(token) ==
    IF token.key = jwt_secret_key /\ ~(token.exp < now)
    THEN <<[sub |-> token.sub, exp |-> token.exp]>>
    ELSE <<>>

\* get_current_user: <<user_id>>, or <<>> for the 401 credentials exception.
get_current_user(token) ==
    LET payload == jwt_decode(token) IN
    IF payload = <<>> THEN <<>>
    ELSE IF payload[1].sub = 0 THEN <<>>
    ELSE <<payload[1].sub>>

\* get_api_key: the status the dependency raises, or 0 when it lets the request through.
get_api_key(api_key) ==
    IF api_key = NoHeader \/ api_key = "" THEN 403
    ELSE IF "api_key" \notin SettingsFields THEN 500
    ELSE IF api_key # "the-secret" THEN 403
    ELSE 0

----------------------------------------------------------------------------
(* The collections.                                                        *)

Min(S) == CHOOSE x \in S : \A y \in S : x <= y

\* find_one({"email": e}) on a collection: the first match, or <<>> for None.
find_one_by_email(coll, e) ==
    LET S == {i \in DOMAIN coll : coll[i].email = e} IN
    IF S = {} THEN <<>> ELSE <<coll[Min(S)]>>

users_find_one_by_email(e) == find_one_by_email(users, e)

users_find_one_by_id(id) ==
    LET S == {i \in DOMAIN users : users[i]._id = id} IN
    IF S = {} THEN <<>> ELSE <<users[Min(S)]>>

\* update_one({"_id": id}, {"$set": {field: value}}) on the first match.
users_update_one(id, field, value) ==
    LET S == {i \in DOMAIN users : users[i]._id = id} IN
    IF S = {} THEN users
    ELSE [users EXCEPT ![Min(S)] = [users[Min(S)] EXCEPT ![field] = value]]

UserOut(u) == [id |-> u._id, email |-> u.email, full_name |-> u.full_name,
               created_at |-> u.created_at]

----------------------------------------------------------------------------
(* The limiter.                                                            *)

\* "n/hour" and "n/minute" of each @limiter.limit, the window in minutes.
Amount(route) ==
    CASE route = "register" -> 5
      [] route = "login" -> 10
      [] route = "recover_password" -> 3
      [] route = "reset_password" -> 5
      [] route = "read_profile" -> 60
      [] route = "update_profile" -> 30
      [] route = "change_password" -> 5
      [] route = "create_booking" -> 20
      [] route = "list_bookings" -> 60

Window(route) ==
    IF route \in {"login", "read_profile", "list_bookings"} THEN 1 ELSE 60

NoHits == [count |-> 0, expiry |-> 0]

\* The storage entry of a key as a read sees it: an expired entry is gone.
Live(entry) == IF entry.count > 0 /\ entry.expiry <= now THEN NoHits ELSE entry

\* FixedWindowRateLimiter.hit: the entry after incr; the window starts at the first hit.
Incr(entry, route) ==
    LET e == Live(entry) IN
    [count |-> e.count + 1,
     expiry |-> IF e.count = 0 THEN now + Window(route) ELSE e.expiry]

\* The response to a request; a request moves neither the clock nor the limiter's mode.
\* token is the bearer token presented (NoToken on a route that takes none), user the
\* id the bearer dependency resolved (0 when none did).
Respond(route, addr, token, user, status, req, body) ==
    /\ resp' = [route |-> route, addr |-> addr, token |-> token, user |-> user,
                status |-> status, req |-> req, body |-> body]
    /\ UNCHANGED <<now, limiter>>

\* The limiter letting one request more than the budget through.
Limited_one_too_many(route, addr, token, user, req, H) ==
    IF limiter = "NoOpLimiter"
    THEN H /\ hits' = hits
    ELSE /\ Live(hits[<<addr, route>>]).count < Amount(route) + MaxOver
         /\ hits' = [hits EXCEPT ![<<addr, route>>] = Incr(@, route)]
         /\ IF Incr(hits[<<addr, route>>], route).count <= Amount(route) + 1
            THEN H
            ELSE /\ Respond(route, addr, token, user, 429, req, <<"Rate limit exceeded">>)
                 /\ UNCHANGED store

\* The decorated endpoint: the limiter's check, then the body H.
Limited(route, addr, token, user, req, H) ==
    IF limiter = "NoOpLimiter"
    THEN H /\ hits' = hits
    ELSE /\ Live(hits[<<addr, route>>]).count < Amount(route) + MaxOver
         /\ hits' = [hits EXCEPT ![<<addr, route>>] = Incr(@, route)]
         /\ IF Incr(hits[<<addr, route>>], route).count <= Amount(route)
            THEN H
            ELSE /\ Respond(route, addr, token, user, 429, req, <<"Rate limit exceeded">>)
                 /\ UNCHANGED store

\* A protected endpoint: the bearer dependency runs before the decorated endpoint.
\* H is the endpoint's body for the user the dependency returned.
Protected(route, addr, token, req, H) ==
    LET cu == get_current_user(token) IN
    IF cu = <<>>
    THEN /\ Respond(route, addr, token, 0, 401, req, <<"Could not validate credentials">>)
         /\ UNCHANGED <<store, hits>>
    ELSE Limited(route, addr, token, cu[1], req, H)

----------------------------------------------------------------------------
(* Initial state: empty collections, nothing issued, no request answered.  *)

InitStore ==
    /\ users = <<>>
    /\ events = <<>>
    /\ now = 0
    /\ uuids = 0
    /\ issued = {}
    /\ hits = [k \in Addrs \X Routes |-> NoHits]
    /\ threads = [w \in Workers |-> <<>>]
    /\ created = <<>>
    /\ pw_changed_at = -1
    /\ replayed = FALSE
    /\ resp = [route |-> "none", addr |-> "none", token |-> NoToken, user |-> 0, status |-> 0,
               req |-> <<>>, body |-> <<>>]

Init == InitStore /\ limiter = "NoOpLimiter"

----------------------------------------------------------------------------
(* Command and query handlers.                                             *)

\* The document register_user builds: a fresh uuid4, the hash, the time of creation.
new_user(data) ==
    [_id |-> uuids + 1, email |-> data.email,
     hashed_password |-> hash_password(data.password),
     full_name |-> data.full_name, created_at |-> now]

\* register_user without its existence check.
register_user_unchecked(data) == <<new_user(data)>>

\* register_user: <<the new document>>, or <<>> for ValueError("Email already registered").
register_user(data) ==
    IF users_find_one_by_email(data.email) # <<>> THEN <<>>
    ELSE <<new_user(data)>>

\* update_user: the users collection after the $set of the patch.
update_user(user_id, update_data) ==
    users_update_one(user_id, "full_name", update_data.full_name)

\* update_password with a filter that matches every document.
update_password_every_user(user_id, new_password) ==
    [i \in DOMAIN users |->
        [users[i] EXCEPT !.hashed_password = hash_password(new_password)]]

\* update_password: the users collection after the $set of the new hash.
update_password(user_id, new_password) ==
    users_update_one(user_id, "hashed_password", hash_password(new_password))

\* BookingCreated.create: the event, with a fresh uuid4 as the booking id.
BookingCreated_create(user_id, slot) ==
    [type |-> "BookingCreated",
     data |-> [id |-> uuids + 1, user_id |-> user_id, slot |-> slot],
     timestamp |-> now]

\* The write as an upsert keyed by the user: it replaces the user's earlier event.
handle_create_booking_upsert(user_id, slot) ==
    LET Others(doc) == doc.data.user_id # user_id
    IN  Append(SelectSeq(events, Others), BookingCreated_create(user_id, slot))

\* handle_create_booking: the events collection after insert_one.
handle_create_booking(user_id, slot) ==
    Append(events, BookingCreated_create(user_id, slot))

BookingView(doc) ==
    [id |-> doc.data.id, user_id |-> doc.data.user_id, slot |-> doc.data.slot]

Project(docs) == [i \in DOMAIN docs |-> BookingView(docs[i])]

\* The query without its user filter.
events_find_any_user(user_id) ==
    LET Match(doc) == doc.type = "BookingCreated"
    IN  SelectSeq(events, Match)

\* events.find({"type": "BookingCreated", "data.user_id": user_id})
events_find(user_id) ==
    LET Match(doc) == doc.type = "BookingCreated" /\ doc.data.user_id = user_id
    IN  SelectSeq(events, Match)

\* The query reading one document (find_one) where the code reads them all.
handle_list_bookings_find_one(user_id) ==
    LET docs == events_find(user_id)
    IN  IF docs = <<>> THEN <<>> ELSE Project(<<docs[1]>>)

\* handle_list_bookings: the bookings of the BookingList returned.
handle_list_bookings(user_id) == Project(events_find(user_id))

----------------------------------------------------------------------------
(* The routes.                                                             *)

\* login's decision on a users collection: the document found and verified, or <<>>
\* for the 401.
authenticate(coll, form) ==
    LET user == find_one_by_email(coll, form.username) IN
    IF user = <<>> THEN <<>>
    ELSE IF ~verify_password(form.password, user[1].hashed_password) THEN <<>>
    ELSE user

register(addr, data) ==
    Limited("register", addr, NoToken, 0, [email |-> data.email],
        LET r == register_user(data) IN
        IF r = <<>>
        THEN /\ Respond("register", addr, NoToken, 0, 400, [email |-> data.email],
                        <<"Email already registered">>)
             /\ UNCHANGED store
        ELSE /\ users' = Append(users, r[1])
             /\ uuids' = uuids + 1
             /\ Respond("register", addr, NoToken, 0, 201, [email |-> data.email], <<UserOut(r[1])>>)
             /\ UNCHANGED <<events, issued, threads, created, pw_changed_at, replayed>>)

\* register as two steps of a worker thread w: the existence check of register_user ...
register_check(w, addr, data) ==
    /\ threads[w] = <<>>
    /\ Limited("register", addr, NoToken, 0, [email |-> data.email],
          IF register_user(data) = <<>>
          THEN /\ Respond("register", addr, NoToken, 0, 400, [email |-> data.email],
                          <<"Email already registered">>)
               /\ UNCHANGED store
          ELSE /\ threads' = [threads EXCEPT ![w] = <<data>>]
               /\ UNCHANGED <<users, events, uuids, issued, created, resp, now, limiter, pw_changed_at, replayed>>)

\* ... then, under a store with a unique index on email, an insert that fails on a duplicate
register_insert_unique_index(w) ==
    /\ threads[w] # <<>>
    /\ threads' = [threads EXCEPT ![w] = <<>>]
    /\ IF users_find_one_by_email(threads[w][1].email) # <<>>
       THEN /\ Respond("register", Client, NoToken, 0, 500, [email |-> threads[w][1].email], <<>>)
            /\ UNCHANGED <<users, events, uuids, issued, created, hits, pw_changed_at, replayed>>
       ELSE /\ users' = Append(users, new_user(threads[w][1]))
            /\ uuids' = uuids + 1
            /\ Respond("register", Client, NoToken, 0, 201, [email |-> threads[w][1].email],
                       <<UserOut(new_user(threads[w][1]))>>)
            /\ UNCHANGED <<events, issued, created, hits, pw_changed_at, replayed>>

\* ... then its insert_one and the 201, whatever was inserted since the check.
register_insert(w) ==
    /\ threads[w] # <<>>
    /\ threads' = [threads EXCEPT ![w] = <<>>]
    /\ users' = Append(users, new_user(threads[w][1]))
    /\ uuids' = uuids + 1
    /\ Respond("register", Client, NoToken, 0, 201, [email |-> threads[w][1].email],
               <<UserOut(new_user(threads[w][1]))>>)
    /\ UNCHANGED <<events, issued, created, hits, pw_changed_at, replayed>>

login(addr, form) ==
    Limited("login", addr, NoToken, 0, form,
        LET user == authenticate(users, form) IN
        IF user = <<>>
        THEN /\ Respond("login", addr, NoToken, 0, 401, form, <<"Invalid credentials">>)
             /\ UNCHANGED store
        ELSE LET token == create_access_token(user[1]._id, jwt_expire_minutes) IN
             /\ issued' = issued \cup {[tok |-> token, via |-> "login"]}
             /\ Respond("login", addr, NoToken, 0, 200, form, <<token>>)
             /\ UNCHANGED <<users, events, uuids, threads, created, pw_changed_at, replayed>>)

recover_password(addr, email) ==
    Limited("recover_password", addr, NoToken, 0, [email |-> email],
        LET user == users_find_one_by_email(email) IN
        IF user = <<>>
        THEN /\ Respond("recover_password", addr, NoToken, 0, 404, [email |-> email],
                        <<"User not found">>)
             /\ UNCHANGED store
        ELSE LET token == create_access_token(user[1]._id, recover_expire_minutes) IN
             /\ issued' = issued \cup {[tok |-> token, via |-> "recover"]}
             /\ Respond("recover_password", addr, NoToken, 0, 200, [email |-> email],
                        <<"Recovery email sent">>)
             /\ UNCHANGED <<users, events, uuids, threads, created, pw_changed_at, replayed>>)

\* reset_password with a purpose check: only tokens that recover_password issued.
reset_password_recovery_only(addr, token, new_password) ==
    LET req == [token |-> token, new_password |-> new_password] IN
    Limited("reset_password", addr, NoToken, 0, req,
        LET payload == jwt_decode(token) IN
        IF payload = <<>> \/ [tok |-> token, via |-> "recover"] \notin issued
        THEN /\ Respond("reset_password", addr, NoToken, 0, 400, req, <<"Invalid or expired token">>)
             /\ UNCHANGED store
        ELSE /\ users' = update_password(payload[1].sub, new_password)
             /\ pw_changed_at' = now
             /\ replayed' = /\ resp.route = "reset_password"
                            /\ resp.status = 200
                            /\ resp.req.token = token
                            /\ pw_changed_at < now
             /\ Respond("reset_password", addr, NoToken, 0, 200, req, <<"Password updated">>)
             /\ UNCHANGED <<events, uuids, issued, threads, created>>)

reset_password(addr, token, new_password) ==
    LET req == [token |-> token, new_password |-> new_password] IN
    Limited("reset_password", addr, NoToken, 0, req,
        LET payload == jwt_decode(token) IN
        IF payload = <<>>
        THEN /\ Respond("reset_password", addr, NoToken, 0, 400, req, <<"Invalid or expired token">>)
             /\ UNCHANGED store
        ELSE /\ users' = update_password(payload[1].sub, new_password)
             /\ pw_changed_at' = now
             /\ replayed' = /\ resp.route = "reset_password"
                            /\ resp.status = 200
                            /\ resp.req.token = token
                            /\ pw_changed_at < now
             /\ Respond("reset_password", addr, NoToken, 0, 200, req, <<"Password updated">>)
             /\ UNCHANGED <<events, uuids, issued, threads, created>>)

read_profile_body(addr, token, user_id) ==
    LET u == users_find_one_by_id(user_id) IN
    /\ Respond("read_profile", addr, token, user_id, IF u = <<>> THEN 500 ELSE 200, <<>>,
               IF u = <<>> THEN <<>> ELSE <<UserOut(u[1])>>)
    /\ UNCHANGED store

read_profile(addr, token) ==
    LET H == read_profile_body(addr, token, get_current_user(token)[1])
    IN  Protected("read_profile", addr, token, <<>>, H)

update_profile_body(addr, token, req, user_id) ==
    LET updated == update_user(user_id, req)
        S == {i \in DOMAIN updated : updated[i]._id = user_id}
    IN  /\ users' = updated
        /\ Respond("update_profile", addr, token, user_id, IF S = {} THEN 500 ELSE 200, req,
                   IF S = {} THEN <<>> ELSE <<UserOut(updated[Min(S)])>>)
        /\ UNCHANGED <<events, uuids, issued, threads, created, pw_changed_at, replayed>>

update_profile(addr, token, data) ==
    LET H == update_profile_body(addr, token, data, get_current_user(token)[1])
    IN  Protected("update_profile", addr, token, data, H)

\* change_password without the check of the old password.
change_password_body_unverified(addr, token, data, user_id) ==
    /\ users' = update_password(user_id, data.new_password)
    /\ pw_changed_at' = now
    /\ Respond("change_password", addr, token, user_id, 200, data,
               <<"Password changed successfully">>)
    /\ UNCHANGED <<events, uuids, issued, threads, created, replayed>>

change_password_body(addr, token, data, user_id) ==
    LET user == users_find_one_by_id(user_id) IN
    IF user = <<>>
    THEN /\ Respond("change_password", addr, token, user_id, 500, data, <<>>)
         /\ UNCHANGED store
    ELSE IF ~verify_password(data.old_password, user[1].hashed_password)
    THEN /\ Respond("change_password", addr, token, user_id, 400, data, <<"Old password incorrect">>)
         /\ UNCHANGED store
    ELSE /\ users' = update_password(user_id, data.new_password)
         /\ pw_changed_at' = now
         /\ Respond("change_password", addr, token, user_id, 200, data,
                    <<"Password changed successfully">>)
         /\ UNCHANGED <<events, uuids, issued, threads, created, replayed>>

change_password(addr, token, data) ==
    LET H == change_password_body(addr, token, data, get_current_user(token)[1])
    IN  Protected("change_password", addr, token, data, H)

create_booking_body(addr, token, slot, user_id) ==
    LET event == BookingCreated_create(user_id, slot) IN
    /\ events' = handle_create_booking(user_id, slot)
    /\ uuids' = uuids + 1
    /\ created' = Append(created, [id |-> event.data.id, user_id |-> user_id, slot |-> slot])
    /\ Respond("create_booking", addr, token, user_id, 201, [slot |-> slot], <<event.data>>)
    /\ UNCHANGED <<users, issued, threads, pw_changed_at, replayed>>

create_booking(addr, token, slot) ==
    LET H == create_booking_body(addr, token, slot, get_current_user(token)[1])
    IN  Protected("create_booking", addr, token, [slot |-> slot], H)

list_bookings_body(addr, token, user_id) ==
    /\ Respond("list_bookings", addr, token, user_id, 200, <<>>, handle_list_bookings(user_id))
    /\ UNCHANGED store

list_bookings(addr, token) ==
    LET H == list_bookings_body(addr, token, get_current_user(token)[1])
    IN  Protected("list_bookings", addr, token, <<>>, H)

\* The application-wide dependency answering a request itself (no endpoint runs).
ApiKeyGate(route, x_api_key) ==
    /\ get_api_key(x_api_key) # 0
    /\ Respond(route, "none", NoToken, 0, get_api_key(x_api_key), [x_api_key |-> x_api_key], <<>>)
    /\ UNCHANGED <<store, hits>>

\* A whole request to PUT /users/me/password: the application-wide dependency runs
\* first; the route's own dependency, decorator and body run only if it returns.
change_password_request(addr, x_api_key, token, data) ==
    IF get_api_key(x_api_key) # 0
    THEN /\ Respond("change_password", addr, token, 0, get_api_key(x_api_key),
                    [x_api_key |-> x_api_key, data |-> data], <<>>)
         /\ UNCHANGED <<store, hits>>
    ELSE change_password(addr, token, data)

\* The clock advances; the storage's timer drops the entries that expired.
Tick ==
    /\ now < MaxClock
    /\ now' = now + TickMinutes
    /\ hits' = [k \in DOMAIN hits |->
                  IF hits[k].count > 0 /\ hits[k].expiry <= now' THEN NoHits ELSE hits[k]]
    /\ UNCHANGED <<store, limiter, resp>>

----------------------------------------------------------------------------
(* Requests as clients can send them.                                      *)

ForgedToken == [sub |-> 1, exp |-> 1000000, key |-> "forged"]

BearerTokens == Tokens \cup {ForgedToken}

UserIn(E, P, N) == [email : E, password : P, full_name : N]

LoginForm(E, P) == [username : E, password : P]

UserUpdate == [full_name : Names]

PasswordUpdate == [old_password : Passwords, new_password : Passwords]

FirstEmail == {"a@example.com"}

FirstName == {"Test User"}

FirstPassword == {"Secret123!"}

TwoPasswords == {"Secret123!", "NewSecret456!"}

PasswordUpdate2 == [old_password : TwoPasswords, new_password : TwoPasswords]

Gate == \E route \in Routes, k \in ApiKeyHeaders : ApiKeyGate(route, k)

\* Every route, for one account.
Next ==
    \/ \E data \in UserIn(FirstEmail, TwoPasswords, FirstName) : register(Client, data)
    \/ \E form \in LoginForm(FirstEmail, TwoPasswords) : login(Client, form)
    \/ \E email \in FirstEmail : recover_password(Client, email)
    \/ \E token \in BearerTokens, p \in TwoPasswords : reset_password(Client, token, p)
    \/ \E token \in BearerTokens : read_profile(Client, token)
    \/ \E token \in BearerTokens, data \in UserUpdate : update_profile(Client, token, data)
    \/ \E token \in BearerTokens, data \in PasswordUpdate2 :
          change_password(Client, token, data)
    \/ \E token \in BearerTokens, slot \in Slots :
          Len(events) < MaxEvents /\ create_booking(Client, token, slot)
    \/ \E token \in BearerTokens : list_bookings(Client, token)
    \/ Gate

Spec == Init /\ [][Next]_vars

\* Bookings of two accounts.
NextBooking ==
    \/ \E data \in UserIn(Emails, FirstPassword, FirstName) : register(Client, data)
    \/ \E form \in LoginForm(Emails, FirstPassword) : login(Client, form)
    \/ \E token \in BearerTokens, slot \in Slots :
          Len(events) < MaxEvents /\ create_booking(Client, token, slot)
    \/ \E token \in BearerTokens : list_bookings(Client, token)

SpecBooking == Init /\ [][NextBooking]_vars

\* Credentials of two accounts.
NextAccount ==
    \/ \E data \in UserIn(Emails, Passwords, FirstName) : register(Client, data)
    \/ \E form \in LoginForm(Emails, Passwords) : login(Client, form)
    \/ \E email \in Emails : recover_password(Client, email)
    \/ \E token \in BearerTokens, p \in Passwords : reset_password(Client, token, p)
    \/ \E token \in BearerTokens, data \in PasswordUpdate :
          change_password(Client, token, data)

SpecAccount == Init /\ [][NextAccount]_vars

\* One account's login tokens as the clock advances.
NextClock ==
    \/ \E data \in UserIn(FirstEmail, FirstPassword, FirstName) : register(Client, data)
    \/ \E form \in LoginForm(FirstEmail, TwoPasswords) :
          Cardinality(issued) < MaxTokens /\ login(Client, form)
    \/ \E token \in BearerTokens, p \in TwoPasswords : reset_password(Client, token, p)
    \/ \E token \in BearerTokens : read_profile(Client, token)
    \/ \E token \in BearerTokens, data \in UserUpdate : update_profile(Client, token, data)
    \/ \E token \in BearerTokens, data \in PasswordUpdate2 :
          change_password(Client, token, data)
    \/ \E token \in BearerTokens, slot \in Slots :
          events = <<>> /\ create_booking(Client, token, slot)
    \/ \E token \in BearerTokens : list_bookings(Client, token)
    \/ Tick

SpecClock == Init /\ [][NextClock]_vars

\* Registrations of two worker threads, interleaved, and the logins that follow.
NextRace ==
    \/ \E w \in Workers, data \in UserIn(Emails, TwoPasswords, FirstName) :
          register_check(w, Client, data)
    \/ \E w \in Workers : register_insert(w)
    \/ \E form \in LoginForm(Emails, TwoPasswords) : login(Client, form)

SpecRace == Init /\ [][NextRace]_vars

InitRate == InitStore /\ limiter = "Limiter"

\* The production limiter: registrations from two addresses, a few resets from the
\* first, and the clock.
NextRate ==
    \/ \E data \in UserIn(Emails, FirstPassword, FirstName) : register(Client, data)
    \/ \E data \in UserIn(FirstEmail, FirstPassword, FirstName) : register(Other, data)
    \/ \E p \in FirstPassword :
          /\ Live(hits[<<Client, "reset_password">>]).count < MaxOver
          /\ reset_password(Client, ForgedToken, p)
    \/ Tick

SpecRate == InitRate /\ [][NextRate]_vars

\* The production limiter on a protected route: requests that reached the route, and
\* whole requests with every x-api-key header and bearer token a client can send.
NextOrder ==
    \/ \E data \in UserIn(FirstEmail, FirstPassword, FirstName) : register(Client, data)
    \/ \E form \in LoginForm(FirstEmail, TwoPasswords) :
          issued = {} /\ login(Client, form)
    \/ \E token \in BearerTokens, data \in PasswordUpdate2 :
          change_password(Client, token, data)
    \/ \E k \in ApiKeyHeaders, token \in BearerTokens, data \in PasswordUpdate2 :
          change_password_request(Client, k, token, data)

SpecOrder == InitRate /\ [][NextOrder]_vars

\* One account, its login and recovery tokens presented to reset_password and to two
\* protected routes, and the clock.
NextToken ==
    \/ \E data \in UserIn(FirstEmail, FirstPassword, FirstName) : register(Client, data)
    \/ \E form \in LoginForm(FirstEmail, TwoPasswords) :
          Cardinality(issued) < MaxTokens /\ login(Client, form)
    \/ \E email \in FirstEmail :
          Cardinality(issued) < MaxTokens /\ recover_password(Client, email)
    \/ \E token \in BearerTokens, p \in TwoPasswords : reset_password(Client, token, p)
    \/ \E token \in BearerTokens : read_profile(Client, token)
    \/ \E token \in BearerTokens : list_bookings(Client, token)
    \/ Tick

SpecToken == Init /\ [][NextToken]_vars

----------------------------------------------------------------------------
(* Properties.                                                             *)

Range(f) == {f[i] : i \in DOMAIN f}

Count(f, x) == Cardinality({i \in DOMAIN f : f[i] = x})

SameBag(f, g) == \A x \in Range(f) \cup Range(g) : Count(f, x) = Count(g, x)

UserIds == {users[i]._id : i \in DOMAIN users}

ListAnswered == resp.route = "list_bookings" /\ resp.status = 200

\* The bookings user u created so far, as the requests and responses recorded them.
CreatedBy(u) ==
    LET Mine(c) == c.user_id = u IN SelectSeq(created, Mine)

\* C1: isolation. For distinct users A and B, no booking created by A (an event whose
\* data.user_id = A) appears in the result of ListBookings(B): neither in what the
\* query computes for B in any reachable state, nor in a list response sent to B.
C1_Isolation ==
    /\ \A B \in UserIds : \A i \in DOMAIN events :
          events[i].data.user_id # B =>
             \A b \in Range(handle_list_bookings(B)) : b.id # events[i].data.id
    /\ ListAnswered =>
          \A i \in DOMAIN events :
             events[i].data.user_id # resp.user =>
                \A b \in Range(resp.body) : b.id # events[i].data.id

\* C1's case: a list answered to a user who has a booking, while another user has one too.
C1_Witness ==
    /\ ListAnswered
    /\ resp.body # <<>>
    /\ \E i \in DOMAIN events : events[i].data.user_id # resp.user

\* C2: completeness. ListBookings(u) returns exactly the bookings u created through
\* CreateBooking so far: one entry per successful CreateBooking, none missing, none
\* extra, each with user_id = u and the slot given at creation.
C2_Completeness ==
    /\ \A u \in UserIds : SameBag(handle_list_bookings(u), CreatedBy(u))
    /\ ListAnswered =>
          /\ SameBag(resp.body, CreatedBy(resp.user))
          /\ Len(resp.body) = Len(CreatedBy(resp.user))

\* C2's case: a user who created two bookings lists them, another user's booking in the log.
C2_Witness ==
    /\ ListAnswered
    /\ Len(resp.body) = 2
    /\ resp.body[1].slot # resp.body[2].slot
    /\ Len(events) = 3

\* The response is the application-wide dependency's own (it carries the header sent).
GateAnswered(r) == r.req # <<>> /\ "x_api_key" \in DOMAIN r.req

\* C3: every request, on every route, that has no x-api-key header or a value
\* different from the configured secret is answered 403 (and leaves the users
\* collection and the event log unchanged).
C3_BadKeyForbidden ==
    [][(GateAnswered(resp') /\ resp'.req.x_api_key # "the-secret") =>
          (resp'.status = 403 /\ users' = users /\ events' = events)]_vars

HasEmail(e) == \E i \in DOMAIN users : users[i].email = e

\* C4: for sequential requests, RegisterUser with an email a user record already has
\* fails (400, "Email already registered"), inserts no record and leaves the existing
\* records unchanged; with an email no record has it succeeds (201) and adds exactly
\* one record, with that email.
C4_RegisterDuplicate ==
    [][resp'.route = "register" =>
          IF HasEmail(resp'.req.email)
          THEN /\ resp'.status = 400
               /\ resp'.body = <<"Email already registered">>
               /\ users' = users
          ELSE /\ resp'.status = 201
               /\ Len(users') = Len(users) + 1
               /\ SubSeq(users', 1, Len(users)) = users
               /\ users'[Len(users')].email = resp'.req.email
               /\ resp'.body[1].email = resp'.req.email]_vars

\* C4's case: a registration refused for its email while two accounts exist.
C4_Witness ==
    /\ resp.route = "register"
    /\ resp.status = 400
    /\ Len(users) = 2

\* The stored document of user id (a one-element sequence), in a given collection.
DocOf(coll, id) ==
    LET Is(u) == u._id = id IN SelectSeq(coll, Is)

\* A change-password request reached the endpoint's body with a wrong old password.
WrongOldPassword ==
    /\ resp'.route = "change_password"
    /\ resp'.user # 0
    /\ DocOf(users, resp'.user) # <<>>
    /\ ~verify_password(resp'.req.old_password, DocOf(users, resp'.user)[1].hashed_password)

\* It failed with 400, the collection is as it was, and a login with a password that
\* worked before still works.
RefusedAndUnaltered ==
    /\ resp'.status = 400
    /\ users' = users
    /\ \A p \in Passwords :
          verify_password(p, DocOf(users, resp'.user)[1].hashed_password) =>
             authenticate(users', [username |-> DocOf(users, resp'.user)[1].email,
                                   password |-> p]) # <<>>

NewPasswordRefused ==
    authenticate(users', [username |-> DocOf(users, resp'.user)[1].email,
                          password |-> resp'.req.new_password]) = <<>>

\* C6 as stated: change-password with an old_password that does not match the stored
\* hash fails with 400 and does not alter the hash: login with the previous password
\* still succeeds afterwards and login with the proposed new password fails.
C6_AsStated ==
    [][WrongOldPassword => (RefusedAndUnaltered /\ NewPasswordRefused)]_vars

\* C6 amended: ... and login with the proposed new password fails when the proposed
\* password is not the password the account already has.
C6_WrongOldPassword ==
    [][WrongOldPassword =>
          /\ RefusedAndUnaltered
          /\ ~verify_password(resp'.req.new_password,
                              DocOf(users, resp'.user)[1].hashed_password)
                => NewPasswordRefused]_vars

\* C6's case: a change of password refused for its old password.
C6_Witness ==
    /\ resp.route = "change_password"
    /\ resp.status = 400
    /\ resp.req.old_password # resp.req.new_password
    /\ ~verify_password(resp.req.new_password, DocOf(users, resp.user)[1].hashed_password)
    /\ Len(users) = 2

IssuedByRecover(token) == [tok |-> token, via |-> "recover"] \in issued

\* A reset-password request carrying a token that recover-password issued.
ResetWithRecoveryToken ==
    /\ resp'.route = "reset_password"
    /\ IssuedByRecover(resp'.req.token)
    /\ jwt_decode(resp'.req.token) # <<>>

\* C7: a token issued by recover-password for user A, applied through reset-password
\* with new_password p, changes the stored hash of A and of no other user; afterwards
\* login as A with p succeeds and login as A with the old password fails with 401
\* (when p differs from the old password).
C7_ResetPassword ==
    [][ResetWithRecoveryToken =>
          LET A == resp'.req.token.sub
              p == resp'.req.new_password
              before == DocOf(users, A)[1]
          IN  /\ resp'.status = 200
              /\ DOMAIN users' = DOMAIN users
              /\ \A i \in DOMAIN users :
                    users'[i] = IF users[i]._id = A
                                THEN [users[i] EXCEPT !.hashed_password = hash_password(p)]
                                ELSE users[i]
              /\ authenticate(users', [username |-> before.email, password |-> p]) # <<>>
              /\ authenticate(users', [username |-> before.email, password |-> p])[1]._id = A
              /\ \A old \in Passwords :
                    (old # p /\ verify_password(old, before.hashed_password)) =>
                       authenticate(users', [username |-> before.email, password |-> old]) = <<>>
       ]_vars

\* C7's case: a recovery token applied with a new password, another account beside it.
C7_Witness ==
    /\ resp.route = "reset_password"
    /\ resp.status = 200
    /\ IssuedByRecover(resp.req.token)
    /\ Len(users) = 2
    /\ \E i \in DOMAIN users :
          /\ users[i]._id = resp.req.token.sub
          /\ users[i].hashed_password = hash_password("NewSecret456!")
    /\ \E i \in DOMAIN users :
          /\ users[i]._id # resp.req.token.sub
          /\ users[i].hashed_password = hash_password("Secret123!")

\* C5: the existence check and the insert of registration are not atomic: a request
\* that passed the check inserts its record and is answered 201 whatever was inserted
\* since, so two concurrent requests for one email can both insert (C5_Witness).
C5_InsertUnconditional ==
    [][\A w \in Workers :
          (threads[w] # <<>> /\ threads'[w] = <<>>) =>
             /\ users' = Append(users, new_user(threads[w][1]))
             /\ resp'.status = 201]_vars

\* C5's case: two user records share one email.
C5_Witness ==
    \E i, j \in DOMAIN users : i # j /\ users[i].email = users[j].email

ProtectedRoutes == {"read_profile", "update_profile", "change_password",
                    "create_booking", "list_bookings"}

\* A protected route answers a request that presented an issued token.
BearerAnswered ==
    /\ resp'.route \in ProtectedRoutes
    /\ resp'.token \in Tokens
    /\ now' = now

\* C9 as stated: an access token issued for user u is accepted by the bearer check on
\* every protected route at every moment before its expiry, whatever change-password
\* or reset-password operations happen after its issuance, and is rejected with 401
\* from its expiry onward.
C9_AsStated ==
    \A t \in Tokens : get_current_user(t) = IF now < t.exp THEN <<t.sub>> ELSE <<>>

\* C9 amended: the token is accepted at every moment up to and including its expiry
\* time and rejected with 401 at every later moment, whatever password changes and
\* resets happened: the verdict depends on the clock and the token alone.
C9_NoRevocation ==
    /\ [](\A t \in Tokens :
            get_current_user(t) = IF now <= t.exp THEN <<t.sub>> ELSE <<>>)
    /\ [][BearerAnswered =>
            IF now <= resp'.token.exp
            THEN resp'.status # 401 /\ resp'.user = resp'.token.sub
            ELSE resp'.status = 401]_vars

\* C9's case: a protected route accepts a token issued before the latest password change.
C9_Witness ==
    /\ resp.route = "read_profile"
    /\ resp.status = 200
    /\ resp.token \in Tokens
    /\ pw_changed_at > resp.token.exp - jwt_expire_minutes
    /\ \E i \in DOMAIN users :
          /\ users[i]._id = resp.token.sub
          /\ users[i].hashed_password # hash_password("Secret123!")

EventIds(log) == {log[i].data.id : i \in DOMAIN log}

\* The step appended exactly one BookingCreated event, with a fresh id, for the
\* authenticated user and the slot asked for.
AppendedOne ==
    /\ Len(events') = Len(events) + 1
    /\ SubSeq(events', 1, Len(events)) = events
    /\ LET e == events'[Len(events')]
       IN  /\ e.type = "BookingCreated"
           /\ e.data.id \notin EventIds(events) \cup UserIds
           /\ e.data.user_id = resp'.user
           /\ e.data.slot = resp'.req.slot
           /\ resp'.body = <<e.data>>

\* C10: the event log is append-only. No operation removes or modifies an event
\* already in the log; only CreateBooking changes the log, and it appends exactly one
\* BookingCreated event with a fresh booking id, leaving every earlier event unchanged.
C10_AppendOnly ==
    [][/\ events' # events => (resp'.route = "create_booking" /\ resp'.status = 201)
       /\ (resp'.route = "create_booking" /\ resp'.status = 201 /\ uuids' # uuids)
             => AppendedOne]_vars

\* C10's case: a password reset answered while the log holds two bookings.
C10_Witness ==
    /\ Len(events) >= 2
    /\ resp.route = "reset_password"
    /\ resp.status = 200

\* The budgets and windows (in minutes) of the routes the limiter is exercised on.
Budget(route) == IF route = "recover_password" THEN 3 ELSE 5

Hour == 60

\* A request reached the limiter: it is counted, and the clock does not move.
LimiterReached == now' = now /\ hits' # hits

\* C8: per client address and per route, once the number of requests in the current
\* window reaches the route's budget, every further request from that address to
\* that route in the same window is answered 429 and its handler does not run; after
\* the window rolls over, requests from that address succeed again. Counters of
\* different routes and of different addresses are independent.
C8_RateLimit ==
    /\ [][LimiterReached =>
            LET k == <<resp'.addr, resp'.route>>
                n == hits[k].count
            IN  /\ n >= Budget(resp'.route) =>
                      /\ resp'.status = 429
                      /\ UNCHANGED <<users, events, uuids, issued>>
                /\ n < Budget(resp'.route) => resp'.status \in {201, 400}
                /\ hits'[k].count = n + 1
                /\ hits'[k].expiry = IF n = 0 THEN now + Hour ELSE hits[k].expiry
                /\ \A j \in DOMAIN hits : j # k => hits'[j] = hits[j]]_vars
    /\ [][now' # now =>
            \A k \in DOMAIN hits :
               hits'[k] = IF hits[k].count > 0 /\ hits[k].expiry > now'
                          THEN hits[k] ELSE NoHits]_vars
    /\ [](\A k \in DOMAIN hits :
            hits[k].count > 0 => (now < hits[k].expiry /\ hits[k].expiry <= now + Hour))

\* C8's case: the first address is refused a registration that would have created an
\* account, in a window begun after an earlier one rolled over, while the other
\* address and the other route have requests counted in their own windows.
C8_Witness ==
    /\ resp.route = "register"
    /\ resp.addr = Client
    /\ resp.status = 429
    /\ ~HasEmail(resp.req.email)
    /\ hits[<<Client, "register">>].expiry > Hour
    /\ hits[<<Other, "register">>].count \in 1..4
    /\ hits[<<Client, "reset_password">>].count \in 1..4

\* The last request was a whole one: it carried an x-api-key header (or none).
WholeRequest(r) == r.route = "change_password" /\ r.addr = Client /\ DOMAIN r.req = {"x_api_key", "data"}

\* C11: checks run in the order API-key check, bearer-token check, rate-limit check,
\* handler: a request with a missing or wrong x-api-key is answered 403 even if its
\* bearer token is invalid or the route's budget is exhausted; a request with the
\* right x-api-key and an invalid bearer token is answered 401 even if the budget is
\* exhausted; and a request rejected by either check consumes none of the route's
\* budget and writes nothing to the store.
C11_AsStated ==
    [][WholeRequest(resp') =>
          /\ resp'.req.x_api_key # "the-secret" =>
                (resp'.status = 403 /\ UNCHANGED <<store, hits>>)
          /\ (resp'.req.x_api_key = "the-secret" /\ get_current_user(resp'.token) = <<>>) =>
                (resp'.status = 401 /\ UNCHANGED <<store, hits>>)]_vars

\* C11's case: a whole request with a wrong key and a forged bearer token arrives when
\* the route's budget is exhausted.
C11_Case ==
    /\ WholeRequest(resp)
    /\ resp.req.x_api_key = "wrong-key"
    /\ resp.token = ForgedToken
    /\ hits[<<Client, "change_password">>].count >= Amount("change_password")

IssuedByLogin(token) == [tok |-> token, via |-> "login"] \in issued

\* reset-password answers a request that presented an issued token.
ResetAnswered ==
    /\ resp'.route = "reset_password"
    /\ resp'.req.token \in Tokens
    /\ now' = now

\* C12: tokens carry no purpose and are not consumed: reset-password accepts any
\* validly signed token with subject u up to its expiry time, a login token included,
\* and accepts it again on every later call up to its expiry time, each call
\* overwriting u's password; a token issued by recover-password is accepted as a
\* bearer token on protected routes up to its expiry time.
C12_NoPurposeNotConsumed ==
    /\ [][(ResetAnswered /\ now <= resp'.req.token.exp) =>
            LET u == resp'.req.token.sub
                p == resp'.req.new_password
            IN  /\ resp'.status = 200
                /\ DOMAIN users' = DOMAIN users
                /\ \A i \in DOMAIN users :
                      users'[i] = IF users[i]._id = u
                                  THEN [users[i] EXCEPT !.hashed_password = hash_password(p)]
                                  ELSE users[i]
                /\ DocOf(users', u)[1].hashed_password = hash_password(p)
                /\ issued' = issued
                /\ jwt_decode(resp'.req.token) # <<>>]_vars
    /\ [][(BearerAnswered /\ IssuedByRecover(resp'.token) /\ now <= resp'.token.exp) =>
            (resp'.status = 200 /\ resp'.user = resp'.token.sub)]_vars

\* C12's case: a token that only login issued is accepted by reset-password a second
\* time, later than the first, and overwrites the password again, while a recovery
\* token is outstanding too.
C12_Witness ==
    /\ replayed
    /\ resp.route = "reset_password"
    /\ resp.status = 200
    /\ IssuedByLogin(resp.req.token)
    /\ ~IssuedByRecover(resp.req.token)
    /\ \E i \in issued : i.via = "recover"
    /\ DocOf(users, resp.req.token.sub)[1].hashed_password = hash_password(resp.req.new_password)
    /\ resp.req.new_password # "Secret123!"

============================================================================
